---- MODULE Spec2Model ----
(***************************************************************************)
(* Model of convert-ascii-to-polygon_ecmapprob-extra.py: a QGIS console    *)
(* script that, for every .asc raster of an input directory and every      *)
(* threshold of a user list, writes a thresholded GeoTIFF, polygonizes it  *)
(* into a shapefile and loads the shapefile as a layer of the project.     *)
(*                                                                         *)
(* File names are sequences of one-character strings (and, for the names   *)
(* the script builds, of the literal pieces of its f-strings), so that     *)
(* str.endswith and str.split act on them as they do in Python.            *)
(***************************************************************************)
EXTENDS Integers, Sequences, FiniteSets, TLC

\* ------------------------------------------------------------------ bounds
MaxFiles == 2
MaxThresholds == 2
\* most vector outputs of one run that OGR cannot open
MaxInvalid == 1

\* ------------------------------------------------------- python str helpers
\* str.endswith(suffix)
EndsWith(s, suffix) ==
    /\ Len(s) >= Len(suffix)
    /\ SubSeq(s, Len(s) - Len(suffix) + 1, Len(s)) = suffix

\* index of the first "." of s, Len(s)+1 when there is none
FirstDot(s) ==
    IF \E i \in 1..Len(s) : s[i] = "."
    THEN CHOOSE i \in 1..Len(s) : s[i] = "." /\ \A j \in 1..(i - 1) : s[j] # "."
    ELSE Len(s) + 1

\* s.split('.')[0]
SplitFirst(s) == SubSeq(s, 1, FirstDot(s) - 1)

\* ------------------------------------------------------------ cell values
\* A cell is a number or NaN.
Num(n) == [nan |-> FALSE, v |-> n]
NaN == [nan |-> TRUE, v |-> 0]

\* faulty variant: the comparison reversed
LessEqual(c, t) == ~c.nan /\ c.v <= t

\* raster_data >= threshold_value, elementwise: any comparison with NaN is False
GreaterEqual(c, t) == ~c.nan /\ c.v >= t

\* significand width of the GDT_Float32 band the output is created with
Float32Precision == 24

RECURSIVE Float32Ulp(_, _)
Float32Ulp(a, u) == IF a < (2 ^ Float32Precision) * u THEN u ELSE Float32Ulp(a, 2 * u)

\* round a non-negative integer to the nearest multiple of u, ties to even
RoundHalfEven(a, u) ==
    LET q == a \div u
        r == a % u
    IN  IF 2 * r < u THEN q * u
        ELSE IF 2 * r > u THEN (q + 1) * u
        ELSE IF q % 2 = 0 THEN q * u ELSE (q + 1) * u

\* the value a Float32 band stores for an array element
ToFloat32(c) ==
    IF c.nan THEN NaN
    ELSE LET a == IF c.v < 0 THEN 0 - c.v ELSE c.v
             m == RoundHalfEven(a, Float32Ulp(a, 1))
         IN  Num(IF c.v < 0 THEN 0 - m ELSE m)

\* ------------------------------------------------------------------ inputs
ASC == <<".", "a", "s", "c">>

Name_a   == <<"a", ".", "a", "s", "c">>
Name_b   == <<"b", ".", "a", "s", "c">>
Name_ab  == <<"a", ".", "b", ".", "a", "s", "c">>
Name_d   == <<"d", "a", "s", "c">>

FileNames == {Name_a, Name_b, Name_ab, Name_d}

\* The grid GDAL's AAIGrid driver yields for a .asc file: Int32 when every
\* value is an integer, Float32 otherwise.
Raster_a ==
    [kind |-> "raster", xsize |-> 2, ysize |-> 2, gt |-> "gt_a", proj |-> "EPSG:32615",
     dtype |-> "Int32", nodata |-> Num(-9999),
     data |-> << <<Num(0), Num(1)>>, <<Num(2), Num(16777217)>> >>]
Raster_b ==
    [kind |-> "raster", xsize |-> 3, ysize |-> 1, gt |-> "gt_b", proj |-> "EPSG:4326",
     dtype |-> "Float32", nodata |-> Num(-9999),
     data |-> << <<NaN, Num(1), Num(3)>> >>]
Raster_ab ==
    [kind |-> "raster", xsize |-> 1, ysize |-> 3, gt |-> "gt_a", proj |-> "",
     dtype |-> "Float32", nodata |-> Num(-9999),
     data |-> << <<Num(2)>>, <<Num(1)>>, <<Num(-9999)>> >>]

InputContent(name) ==
    IF name = Name_a THEN Raster_a
    ELSE IF name = Name_b THEN Raster_b
    ELSE IF name = Name_ab THEN Raster_ab
    ELSE Raster_b

\* A threshold is a Python number: an int or a float literal of the user's list.
Threshold(n, f) == [num |-> n, isFloat |-> f]
ThresholdValues == {Threshold(1, FALSE), Threshold(1, TRUE), Threshold(2, TRUE)}

\* faulty variant: the threshold formatted as an integer
FormatThresholdAsInt(t) == <<ToString(t.num)>>

\* f"{threshold}": str() of the number ("1" for 1, "1.0" for 1.0)
FormatThreshold(t) ==
    IF t.isFloat THEN <<ToString(t.num), ".", "0">> ELSE <<ToString(t.num)>>

SeqsUpTo(S, n) == UNION {[1..k -> S] : k \in 0..n}

\* ------------------------------------------------------------------- state
VARIABLES
    dirEntries,     \* names of the entries of input_dir
    thresholds,     \* the user's threshold list
    fs,             \* file system: path -> content
    raster_files,   \* process_rasters_in_folder: the filtered listing
    fileIdx,        \* position of the for-loop over raster_files
    thrIdx,         \* position of the for-loop over thresholds
    vector_layers,  \* process_thresholds: the local result list
    returned,       \* the last value process_thresholds returned
    registry,       \* QgsProject.instance(): the layers added, in order
    pc,             \* control position
    log             \* the calls made so far, in order

vars == <<dirEntries, thresholds, fs, raster_files, fileIdx, thrIdx,
          vector_layers, returned, registry, pc, log>>

InputDir == "in"
OutputDir == "out"

\* os.path.join(input_dir, raster_file)
JoinPath(dir, name) == [dir |-> dir, name |-> name]

\* os.path.basename(path)
Basename(path) == path.name

\* f"{output_dir}/{basename.split('.')[0]}_threshold_{threshold}.tif"
OutputRasterPath(input_raster_path, t) ==
    JoinPath(OutputDir,
             SplitFirst(Basename(input_raster_path)) \o <<"_threshold_">>
                 \o FormatThreshold(t) \o <<".tif">>)

\* faulty variant: the vector path is a copy of the raster path
OutputVectorPathAsRaster(input_raster_path, t) == OutputRasterPath(input_raster_path, t)

\* f"{output_dir}/{basename.split('.')[0]}_threshold_{threshold}_polygons.shp"
OutputVectorPath(input_raster_path, t) ==
    JoinPath(OutputDir,
             SplitFirst(Basename(input_raster_path)) \o <<"_threshold_">>
                 \o FormatThreshold(t) \o <<"_polygons.shp">>)

\* f"{basename.split('.')[0]}_Threshold {threshold}"
LayerName(input_raster_path, t) ==
    SplitFirst(Basename(input_raster_path)) \o <<"_Threshold ">> \o FormatThreshold(t)

\* np.where(raster_data >= threshold_value, raster_data, np.nan)
ThresholdedData(raster_data, threshold_value) ==
    [y \in DOMAIN raster_data |->
        [x \in DOMAIN raster_data[y] |->
            IF GreaterEqual(raster_data[y][x], threshold_value)
            THEN raster_data[y][x] ELSE NaN]]

\* output_band.WriteArray(array) on a GDT_Float32 band
WriteArray(array) ==
    [y \in DOMAIN array |-> [x \in DOMAIN array[y] |-> ToFloat32(array[y][x])]]

\* faulty variant: the georeferencing is not copied and the sizes are swapped
ThresholdRasterNoGeoref(raster_ds, threshold_value) ==
    [kind |-> "raster",
     xsize |-> raster_ds.ysize, ysize |-> raster_ds.xsize,
     gt |-> "identity", proj |-> "",
     dtype |-> "Float32", nodata |-> NaN,
     data |-> WriteArray(ThresholdedData(raster_ds.data, threshold_value))]

\* the dataset create_threshold_raster leaves at output_raster_path
ThresholdRaster(raster_ds, threshold_value) ==
    [kind |-> "raster",
     xsize |-> raster_ds.xsize, ysize |-> raster_ds.ysize,
     gt |-> raster_ds.gt, proj |-> raster_ds.proj,
     dtype |-> "Float32", nodata |-> NaN,
     data |-> WriteArray(ThresholdedData(raster_ds.data, threshold_value))]

\* writing a file creates it or replaces what was there
WriteFile(files, path, content) ==
    [p \in DOMAIN files \cup {path} |-> IF p = path THEN content ELSE files[p]]

Event(op, file, idx, path, ok) ==
    [op |-> op, file |-> file, idx |-> idx, path |-> path, ok |-> ok]

\* faulty variant: the extension is matched without its dot
IsRasterFileNoDot(f) == EndsWith(f, <<"a", "s", "c">>)

\* [f for f in os.listdir(input_dir) if f.endswith('.asc')]
IsRasterFile(f) == EndsWith(f, ASC)

\* the orders os.listdir may give the entries in
Listings(S) == {s \in [1..Cardinality(S) -> S] : \A i, j \in DOMAIN s : i # j => s[i] # s[j]}

CurFile == raster_files[fileIdx]
CurInput == JoinPath(InputDir, CurFile)
CurThreshold == thresholds[thrIdx]

Init ==
    /\ dirEntries \in {S \in SUBSET FileNames : Cardinality(S) <= MaxFiles}
    /\ thresholds \in SeqsUpTo(ThresholdValues, MaxThresholds)
    /\ fs = [p \in {JoinPath(InputDir, n) : n \in dirEntries} |-> InputContent(p.name)]
    /\ raster_files = <<>>
    /\ fileIdx = 0
    /\ thrIdx = 0
    /\ vector_layers = <<>>
    /\ returned = <<>>
    /\ registry = <<>>
    /\ pc = "start"
    /\ log = <<>>

\* process_rasters_in_folder, line 119: list and filter the directory
ListDir ==
    /\ pc = "start"
    /\ raster_files' \in Listings({f \in dirEntries : IsRasterFile(f)})
    /\ fileIdx' = 1
    /\ pc' = "next_file"
    /\ UNCHANGED <<dirEntries, thresholds, fs, thrIdx, vector_layers, returned,
                   registry, log>>

\* lines 121-126 and 91: the next raster file; process_thresholds is entered
CallProcessThresholds ==
    /\ pc = "next_file"
    /\ fileIdx <= Len(raster_files)
    /\ vector_layers' = <<>>
    /\ thrIdx' = 1
    /\ pc' = "mask"
    /\ log' = Append(log, Event("call", CurFile, 0, CurInput, TRUE))
    /\ UNCHANGED <<dirEntries, thresholds, fs, raster_files, fileIdx, returned, registry>>

\* line 121: the for-loop over raster_files is exhausted
FolderDone ==
    /\ pc = "next_file"
    /\ fileIdx > Len(raster_files)
    /\ pc' = "done"
    /\ UNCHANGED <<dirEntries, thresholds, fs, raster_files, fileIdx, thrIdx,
                   vector_layers, returned, registry, log>>

\* lines 98-99: create_threshold_raster(input, output, threshold)
CreateThresholdRaster ==
    /\ pc = "mask"
    /\ thrIdx <= Len(thresholds)
    /\ LET out == OutputRasterPath(CurInput, CurThreshold)
       IN  /\ fs' = WriteFile(fs, out, ThresholdRaster(fs[CurInput], CurThreshold.num))
           /\ log' = Append(log, Event("mask", CurFile, thrIdx, out, TRUE))
    /\ pc' = "polygonize"
    /\ UNCHANGED <<dirEntries, thresholds, raster_files, fileIdx, thrIdx,
                   vector_layers, returned, registry>>

\* faulty variant: the exception is swallowed and the iteration goes on
Swallow == "load"

\* what an uncaught exception does to the run: nothing catches it
Raise == "aborted"

\* lines 45-46: gdal.Open fails and the exception leaves every loop
CreateThresholdRasterFault ==
    /\ pc = "mask"
    /\ thrIdx <= Len(thresholds)
    /\ pc' = Raise
    /\ log' = Append(log, Event("fault", CurFile, thrIdx, CurInput, FALSE))
    /\ UNCHANGED <<dirEntries, thresholds, fs, raster_files, fileIdx, thrIdx,
                   vector_layers, returned, registry>>

\* the vector dataset gdal:polygonize derives from the raster at raster_path
Polygonize(files, raster_path, valid) ==
    [kind |-> "vector", valid |-> valid, from |-> raster_path,
     data |-> files[raster_path].data]

\* faulty variant: the source raster is polygonized instead of the thresholded one
PolygonizeInputSource(input_raster_path, t) == input_raster_path

\* the raster raster_to_vector is handed at line 103
PolygonizeInput(input_raster_path, t) == OutputRasterPath(input_raster_path, t)

\* lines 102-103: raster_to_vector(output_raster_path, output_vector_path);
\* the dataset written may or may not be one OGR can open
RasterToVector ==
    /\ pc = "polygonize"
    /\ \E valid \in BOOLEAN :
         LET in == PolygonizeInput(CurInput, CurThreshold)
             out == OutputVectorPath(CurInput, CurThreshold)
         IN  /\ valid \/ Cardinality({k \in 1..Len(log) :
                                log[k].op = "polygonize" /\ ~log[k].ok}) < MaxInvalid
             /\ fs' = WriteFile(fs, out, Polygonize(fs, in, valid))
             /\ log' = Append(log, Event("polygonize", CurFile, thrIdx, out, valid))
    /\ pc' = "load"
    /\ UNCHANGED <<dirEntries, thresholds, raster_files, fileIdx, thrIdx,
                   vector_layers, returned, registry>>

\* line 79: processing.run raises
RasterToVectorFault ==
    /\ pc = "polygonize"
    /\ pc' = Raise
    /\ log' = Append(log, Event("fault", CurFile, thrIdx,
                                OutputRasterPath(CurInput, CurThreshold), FALSE))
    /\ UNCHANGED <<dirEntries, thresholds, fs, raster_files, fileIdx, thrIdx,
                   vector_layers, returned, registry>>

\* QgsVectorLayer(output_vector_path, name, "ogr")
VectorLayer(path, name) == [source |-> path, name |-> name]

\* vector_layer.isValid()
IsValid(files, layer) ==
    /\ layer.source \in DOMAIN files
    /\ files[layer.source].kind = "vector"
    /\ files[layer.source].valid

\* faulty variant: the layer is added without the validity check
AddAlways(layers, layer, valid) == Append(layers, layer)

\* lines 107-109: the layers after the validity check
AddIfValid(layers, layer, valid) == IF valid THEN Append(layers, layer) ELSE layers

\* lines 106-109: load the layer, register and collect it when valid
LoadLayer ==
    /\ pc = "load"
    /\ LET layer == VectorLayer(OutputVectorPath(CurInput, CurThreshold),
                                LayerName(CurInput, CurThreshold))
           valid == IsValid(fs, layer)
       IN  /\ registry' = AddIfValid(registry, layer, valid)
           /\ vector_layers' = AddIfValid(vector_layers, layer, valid)
           /\ log' = Append(log, Event("load", CurFile, thrIdx, layer.source, valid))
    /\ thrIdx' = thrIdx + 1
    /\ pc' = "mask"
    /\ UNCHANGED <<dirEntries, thresholds, fs, raster_files, fileIdx, returned>>

\* lines 94 and 111: the thresholds are exhausted; return vector_layers
ReturnLayers ==
    /\ pc = "mask"
    /\ thrIdx > Len(thresholds)
    /\ returned' = vector_layers
    /\ fileIdx' = fileIdx + 1
    /\ pc' = "next_file"
    /\ log' = Append(log, Event("return", CurFile, 0, CurInput, TRUE))
    /\ UNCHANGED <<dirEntries, thresholds, fs, raster_files, thrIdx, vector_layers,
                   registry>>

Next ==
    \/ ListDir
    \/ CallProcessThresholds
    \/ FolderDone
    \/ CreateThresholdRaster
    \/ CreateThresholdRasterFault
    \/ RasterToVector
    \/ RasterToVectorFault
    \/ LoadLayer
    \/ ReturnLayers

Spec == Init /\ [][Next]_vars

\* ------------------------------------------------------- reading the state
InCall == pc \in {"mask", "polygonize", "load"}

Cells(r) == {<<y, x>> \in (1..r.ysize) \X (1..r.xsize) : TRUE}

\* the cells of a raster that are not no-data
NonNoData(r) == {c \in Cells(r) : r.data[c[1]][c[2]] # r.nodata}

Events(op) == {k \in 1..Len(log) : log[k].op = op}
EventsOf(op, file) == {k \in Events(op) : log[k].file = file}
Writes == Events("mask") \cup Events("polygonize")

\* position of the "call" event of the call in progress or last made
LastCall == CHOOSE k \in Events("call") : \A j \in Events("call") : j <= k

RasterEntries == {f \in dirEntries : EndsWith(f, <<".", "a", "s", "c">>)}

\* the layers of the valid loads among log[from..to], in order
RECURSIVE ValidLayers(_, _)
ValidLayers(from, to) ==
    IF to < from THEN <<>>
    ELSE LET e == log[to]
             rest == ValidLayers(from, to - 1)
         IN  IF e.op = "load" /\ e.ok
             THEN Append(rest, [source |-> e.path,
                                name |-> SplitFirst(e.file) \o <<"_Threshold ">>
                                            \o FormatThreshold(thresholds[e.idx])])
             ELSE rest

\* os.path.splitext(name)[0]: the name without its last extension
LastDot(s) ==
    IF \E i \in 1..Len(s) : s[i] = "."
    THEN CHOOSE i \in 1..Len(s) : s[i] = "." /\ \A j \in (i + 1)..Len(s) : s[j] # "."
    ELSE 0
Stem(s) ==
    IF LastDot(s) > 0 /\ \E j \in 1..(LastDot(s) - 1) : s[j] # "."
    THEN SubSeq(s, 1, LastDot(s) - 1) ELSE s

\* ------------------------------------------------------------------ claims

\* C1 (as claimed): once create_threshold_raster has returned, every cell of
\* the output holds the source value where source >= threshold and NaN
\* elsewhere, on the same grid.
C1_CellsRetainedOrMasked ==
    pc = "polygonize" =>
        LET src == fs[CurInput]
            out == fs[OutputRasterPath(CurInput, CurThreshold)]
        IN  /\ Cells(out) = Cells(src)
            /\ \A c \in Cells(src) :
                 out.data[c[1]][c[2]] =
                    IF ~src.data[c[1]][c[2]].nan /\ src.data[c[1]][c[2]].v >= CurThreshold.num
                    THEN src.data[c[1]][c[2]] ELSE NaN

\* C2: the raster create_threshold_raster wrote has the X/Y size, the
\* geotransform and the projection of its source, for every threshold and
\* however many cells were masked; its data array has that shape.
C2_GeoreferencingPreserved ==
    pc = "polygonize" =>
        LET src == fs[CurInput]
            out == fs[OutputRasterPath(CurInput, CurThreshold)]
        IN  /\ out.xsize = src.xsize
            /\ out.ysize = src.ysize
            /\ out.gt = src.gt
            /\ out.proj = src.proj
            /\ Len(out.data) = src.ysize
            /\ \A y \in 1..src.ysize : Len(out.data[y]) = src.xsize

\* C2 witness: a raster was written with some cells masked and some kept.
C2_Witness ==
    /\ pc = "polygonize"
    /\ LET src == fs[CurInput]
           out == fs[OutputRasterPath(CurInput, CurThreshold)]
       IN  /\ src.xsize # src.ysize
           /\ \E c \in Cells(src) : out.data[c[1]][c[2]].nan /\ ~src.data[c[1]][c[2]].nan
           /\ \E c \in Cells(src) : ~out.data[c[1]][c[2]].nan

\* C3 (as claimed): every raster and vector output is named
\* <stem>_threshold_<t>.tif / <stem>_threshold_<t>_polygons.shp, stem being the
\* input file name without its extension; a completed run over N raster files
\* and M thresholds made N x M vector outputs and registered one layer for
\* each that passed the validity check.
C3_NamesFromStem ==
    /\ \A k \in Events("mask") :
         log[k].path.name = Stem(log[k].file) \o <<"_threshold_">>
                               \o FormatThreshold(thresholds[log[k].idx]) \o <<".tif">>
    /\ \A k \in Events("polygonize") :
         log[k].path.name = Stem(log[k].file) \o <<"_threshold_">>
                               \o FormatThreshold(thresholds[log[k].idx])
                               \o <<"_polygons.shp">>
    /\ pc = "done" =>
         /\ Cardinality(Events("polygonize")) = Cardinality(RasterEntries) * Len(thresholds)
         /\ Len(registry) = Cardinality({k \in Events("load") : log[k].ok})
         /\ Len(registry) <= Cardinality(RasterEntries) * Len(thresholds)

\* parts of C4: a load registers its layer exactly when the layer is valid; the
\* registry holds the layers of the valid loads, vector_layers those of the
\* call in progress, in threshold order; the value returned is the list of the
\* layers registered during the call, and a call that returns has loaded a
\* layer for every threshold, valid or not.
C4_State ==
    /\ registry = ValidLayers(1, Len(log))
    /\ InCall => vector_layers = ValidLayers(LastCall, Len(log))
    /\ (pc = "next_file" /\ fileIdx > 1) =>
         /\ returned = ValidLayers(LastCall, Len(log))
         /\ {log[k].idx : k \in {j \in Events("load") : j > LastCall}} = 1..Len(thresholds)
         /\ Cardinality({j \in Events("load") : j > LastCall}) = Len(thresholds)
C4_Step ==
    pc = "load" =>
        LET layer == [source |-> OutputVectorPath(CurInput, CurThreshold),
                      name |-> LayerName(CurInput, CurThreshold)]
            valid == /\ layer.source \in DOMAIN fs
                     /\ fs[layer.source].kind = "vector"
                     /\ fs[layer.source].valid
        IN  /\ valid => /\ registry' = Append(registry, layer)
                        /\ vector_layers' = Append(vector_layers, layer)
            /\ ~valid => /\ registry' = registry
                         /\ vector_layers' = vector_layers
            /\ pc' = "mask"
            /\ thrIdx' = thrIdx + 1
\* C4: in every state the registry, vector_layers and the returned list are the
\* layers of the valid loads (C4_State), and every load step registers and
\* collects its layer exactly when it is valid, then goes on to the next
\* threshold (C4_Step).
C4_RegisteredIffValid == [](C4_State) /\ [][C4_Step]_vars

\* C4 witness: a call returned after an invalid layer was skipped and a layer
\* of a later threshold was registered.
C4_Witness ==
    /\ pc = "next_file"
    /\ fileIdx > 1
    /\ Len(returned) = 1
    /\ \E i, j \in Events("load") :
         /\ LastCall < i /\ i < j
         /\ ~log[i].ok
         /\ log[j].ok

\* C5: process_thresholds is called at most once per directory entry and
\* never for an entry whose name does not end in ".asc"; each call starts with
\* an empty result list; when the run completes every ".asc" entry was called
\* once and masked once per position of the threshold list; a directory with no
\* ".asc" entry yields no call, no output and no fault.
C5_OncePerRasterEntry ==
    /\ \A k \in Events("call") : log[k].file \in RasterEntries
    /\ \A f \in dirEntries : Cardinality(EventsOf("call", f)) <= 1
    /\ (pc = "mask" /\ thrIdx = 1) => vector_layers = <<>>
    /\ pc = "done" =>
         \A f \in RasterEntries :
            /\ Cardinality(EventsOf("call", f)) = 1
            /\ Cardinality(EventsOf("mask", f)) = Len(thresholds)
            /\ {log[k].idx : k \in EventsOf("mask", f)} = 1..Len(thresholds)
    /\ RasterEntries = {} =>
         /\ pc \in {"start", "next_file", "done"}
         /\ log = <<>>
         /\ registry = <<>>
         /\ DOMAIN fs = {JoinPath(InputDir, n) : n \in dirEntries}

\* C5 witness: a completed run over a directory holding an entry that ends in
\* ".asc" and one that ends in "asc" only.
C5_Witness ==
    /\ pc = "done"
    /\ Len(thresholds) = MaxThresholds
    /\ \E f \in dirEntries : f \in RasterEntries
    /\ \E f \in dirEntries : f \notin RasterEntries /\ EndsWith(f, <<"a", "s", "c">>)

\* positions of the threshold list that hold the same value
Duplicates == {p \in (1..Len(thresholds)) \X (1..Len(thresholds)) :
                  p[1] < p[2] /\ thresholds[p[1]].num = thresholds[p[2]].num}

\* the file whose call returned last
LastFile == raster_files[fileIdx - 1]

C7_State ==
    /\ \A k \in Events("fault") : k = Len(log) /\ pc = "aborted"
    /\ pc = "aborted" => Events("fault") # {}
C7_Step == pc = "aborted" => UNCHANGED vars
\* C7: a fault is always the last event of the run and leaves it aborted
\* (C7_State), and no step changes anything once the run is aborted (C7_Step).
C7_FaultAbortsBatch == [](C7_State) /\ [][C7_Step]_vars

\* C7 witness: a fault after a pair of the same file was completed and
\* registered, with a file of the listing left unprocessed.
C7_Witness ==
    /\ pc = "aborted"
    /\ registry # <<>>
    /\ fileIdx < Len(raster_files)

SamePrefix(f, g) ==
    \/ f = g
    \/ \E n \in 0..Len(f) :
          /\ n <= Len(g)
          /\ SubSeq(f, 1, n) = SubSeq(g, 1, n)
          /\ \A i \in 1..n : f[i] # "."
          /\ n < Len(f) => f[n + 1] = "."
          /\ n < Len(g) => g[n + 1] = "."
MaxProbe == 4
C9_Monotone ==
    /\ pc = "polygonize" =>
         \A i, j \in 1..thrIdx :
            thresholds[i].num < thresholds[j].num =>
               NonNoData(fs[OutputRasterPath(CurInput, thresholds[j])])
                   \subseteq NonNoData(fs[OutputRasterPath(CurInput, thresholds[i])])
    /\ (pc = "mask" /\ thrIdx = 1) =>
             \A t1, t2 \in 0..MaxProbe :
                t1 < t2 =>
                   NonNoData(ThresholdRaster(fs[CurInput], t2))
                       \subseteq NonNoData(ThresholdRaster(fs[CurInput], t1))

\* C9 witness: two rasters of one source are on disk, the one of the larger
\* threshold keeping strictly fewer cells and at least one.
C9_Witness ==
    /\ pc = "polygonize"
    /\ \E i \in 1..(thrIdx - 1) :
         /\ thresholds[i].num < CurThreshold.num
         /\ NonNoData(fs[OutputRasterPath(CurInput, CurThreshold)]) # {}
         /\ NonNoData(fs[OutputRasterPath(CurInput, CurThreshold)])
               # NonNoData(fs[OutputRasterPath(CurInput, thresholds[i])])

\* C10: the steps run in order: a mask follows the call (threshold 1) or the
\* load of the previous threshold; a polygonize follows the mask of the same
\* file and threshold; a load follows the polygonize of the same file and
\* threshold and reads what it wrote; every step is for the threshold at its
\* position of the list; and the vector written was traced from the raster
\* the same iteration wrote.
C10_StepOrder ==
    /\ \A k \in 1..Len(log) :
         CASE log[k].op = "mask" ->
                /\ k > 1
                /\ log[k - 1].file = log[k].file
                /\ \/ log[k - 1].op = "call" /\ log[k].idx = 1
                   \/ log[k - 1].op = "load" /\ log[k].idx = log[k - 1].idx + 1
                /\ log[k].path = OutputRasterPath(JoinPath(InputDir, log[k].file),
                                                  thresholds[log[k].idx])
           [] log[k].op = "polygonize" ->
                /\ k > 1
                /\ log[k - 1].op = "mask"
                /\ log[k - 1].file = log[k].file
                /\ log[k - 1].idx = log[k].idx
           [] log[k].op = "load" ->
                /\ k > 1
                /\ log[k - 1].op = "polygonize"
                /\ log[k - 1].file = log[k].file
                /\ log[k - 1].idx = log[k].idx
                /\ log[k - 1].path = log[k].path
           [] OTHER -> TRUE
    /\ pc = "load" =>
         LET raster == OutputRasterPath(CurInput, CurThreshold)
             vector == fs[OutputVectorPath(CurInput, CurThreshold)]
         IN  /\ log[Len(log)].op = "polygonize"
             /\ log[Len(log) - 1].path = raster
             /\ vector.from = raster
             /\ vector.data = fs[raster].data
             /\ vector.data = ThresholdRaster(fs[CurInput], CurThreshold.num).data

\* C10 witness: the second threshold of a call has been polygonized, and its
\* raster differs from the source.
C10_Witness ==
    /\ pc = "load"
    /\ thrIdx = 2
    /\ fs[OutputRasterPath(CurInput, CurThreshold)].data # fs[CurInput].data

====
